---------------------------- MODULE Spec2Model ----------------------------
(***************************************************************************)
(* Cinematic Vault (src/Trial.py): one SQLite table, cinematic_treasures,  *)
(* its helper functions, the derived metrics and the Streamlit pages that  *)
(* call them.                                                              *)
(*                                                                         *)
(* Representation.  A text is the sequence of its character codes.  A      *)
(* rating is kept in tenths (the sliders step by 0.1), so int(rating*10)   *)
(* of the source is the stored number; a quotient is kept in hundredths.   *)
(* A table row carries the columns the operations and metrics read: id,    *)
(* title, release_year, rating, awards, cultural_impact and added_date.    *)
(* The other TEXT columns (director, language, genre, ...) are written,    *)
(* overwritten and filtered by the very same statements as title and are   *)
(* not carried.                                                            *)
(***************************************************************************)
EXTENDS Integers, Sequences, FiniteSets, TLC

VARIABLES
    rows,   \* the table, in rowid order (what SELECT * returns)
    seq,    \* sqlite_sequence: the largest id AUTOINCREMENT ever handed out
    last    \* the last operation: its arguments and what it returned

vars == <<rows, seq, last>>

---------------------------------------------------------------------------
\* Bounds of the model.

\* AUTOINCREMENT is unbounded; inserts stop after this many.
MaxId == 3

---------------------------------------------------------------------------
\* Sequence helpers.

RECURSIVE SeqMax(_)
SeqMax(s) == IF s = <<>> THEN 0
             ELSE LET m == SeqMax(Tail(s)) IN IF Head(s) > m THEN Head(s) ELSE m

Ids(rs) == {rs[k].id : k \in 1..Len(rs)}

IdSeq(rs) == [k \in 1..Len(rs) |-> rs[k].id]

RowOf(rs, i) == rs[CHOOSE k \in 1..Len(rs) : rs[k].id = i]

Titles(rs) == {rs[k].title : k \in 1..Len(rs)}

Fields(r) == [title |-> r.title, release_year |-> r.release_year,
              rating |-> r.rating, awards |-> r.awards,
              cultural_impact |-> r.cultural_impact]

---------------------------------------------------------------------------
\* Python values handed to sqlite3 as statement parameters, and their binding.

\* A Python int.
PyInt(i) == [py |-> "int", v |-> i]

\* A numpy.int64 scalar: what .iloc[0] of an int64 column, or of a row of a
\* frame that has one, gives.
NpInt64(i) == [py |-> "numpy.int64", v |-> i]

\* sqlite3 binds an int as INTEGER; a numpy.int64 is no int subclass, no
\* adapter is registered for it, and it exports the buffer protocol, so it is
\* bound as a BLOB (its eight bytes).
Bind(p) == IF p.py = "int" THEN [storage |-> "INTEGER", v |-> p.v]
           ELSE [storage |-> "BLOB", v |-> p.v]

\* WHERE id = ?: an INTEGER column equals an INTEGER of the same value, and
\* never a BLOB.
SqlEqId(col, b) == b.storage = "INTEGER" /\ b.v = col

---------------------------------------------------------------------------
\* The record store.

\* INTEGER PRIMARY KEY AUTOINCREMENT: one more than the largest id ever used.
NextRowidByCount(rs, s) == Len(rs) + 1

NextRowid(rs, s) ==
    LET m == SeqMax(IdSeq(rs)) IN (IF s > m THEN s ELSE m) + 1

add_cinematic_gem(rs, s, f, now) ==
    Append(rs, [id |-> NextRowid(rs, s), title |-> f.title,
                release_year |-> f.release_year, rating |-> f.rating,
                awards |-> f.awards, cultural_impact |-> f.cultural_impact,
                added_date |-> now])

get_all_cinematic_treasures(rs) == rs

Overwrite(r, f) == [r EXCEPT !.title = f.title,
                             !.release_year = f.release_year,
                             !.rating = f.rating,
                             !.awards = f.awards,
                             !.cultural_impact = f.cultural_impact]

\* UPDATE with its WHERE clause lost.
UpdateEveryRow(rs, p, f) == [k \in 1..Len(rs) |-> Overwrite(rs[k], f)]

\* An upsert (INSERT OR REPLACE) in place of UPDATE.
UpdateOrInsert(rs, p, f) ==
    IF \E k \in 1..Len(rs) : SqlEqId(rs[k].id, Bind(p))
    THEN [k \in 1..Len(rs) |->
            IF SqlEqId(rs[k].id, Bind(p)) THEN Overwrite(rs[k], f) ELSE rs[k]]
    ELSE Append(rs, [id |-> p.v, title |-> f.title,
                     release_year |-> f.release_year, rating |-> f.rating,
                     awards |-> f.awards,
                     cultural_impact |-> f.cultural_impact,
                     added_date |-> 1])

update_cinematic_gem(rs, p, f) ==
    [k \in 1..Len(rs) |->
        IF SqlEqId(rs[k].id, Bind(p)) THEN Overwrite(rs[k], f) ELSE rs[k]]

RECURSIVE Keep(_, _)
\* The rows of rs whose id is in S, in order.
Keep(rs, S) == IF rs = <<>> THEN <<>>
               ELSE IF Head(rs).id \in S THEN <<Head(rs)>> \o Keep(Tail(rs), S)
               ELSE Keep(Tail(rs), S)

\* DELETE ... WHERE id >= ?
DeleteFrom(rs, p) ==
    Keep(rs, {i \in Ids(rs) : ~(Bind(p).storage = "INTEGER" /\ i >= Bind(p).v)})

delete_cinematic_gem(rs, p) ==
    Keep(rs, {i \in Ids(rs) : ~SqlEqId(i, Bind(p))})

\* cursor.rowcount of an UPDATE or DELETE ... WHERE id = ?
RowCount(rs, p) == Cardinality({i \in Ids(rs) : SqlEqId(i, Bind(p))})

---------------------------------------------------------------------------
\* Texts: character classes and the text operations the code uses.

Min(a, b) == IF a < b THEN a ELSE b

\* str.lower(), on the Latin-1 range.
LowerChar(c) == IF c \in 65..90 \/ c \in 192..214 \/ c \in 216..222
                THEN c + 32 ELSE c

lower(t) == [k \in 1..Len(t) |-> LowerChar(t[k])]

\* The characters str.split() with no argument splits on.
IsSpace(c) == c \in {9, 10, 11, 12, 13, 28, 29, 30, 31, 32, 133, 160}

RECURSIVE SplitAcc(_, _)
SplitAcc(t, cur) ==
    IF t = <<>> THEN (IF cur = <<>> THEN <<>> ELSE <<cur>>)
    ELSE IF IsSpace(Head(t))
         THEN (IF cur = <<>> THEN <<>> ELSE <<cur>>) \o SplitAcc(Tail(t), <<>>)
         ELSE SplitAcc(Tail(t), Append(cur, Head(t)))

\* str.split(): the maximal runs of non-whitespace characters.
split(t) == SplitAcc(t, <<>>)

\* len(str.split(',')): one more than the number of commas.
CommaTokens(t) == Cardinality({k \in 1..Len(t) : t[k] = 44}) + 1

\* SQLite's LIKE folds the case of the ASCII letters only.
LikeFold(c) == IF c \in 65..90 THEN c + 32 ELSE c

RECURSIVE Like(_, _)
\* SQLite's  s LIKE p : in p, % (37) stands for any run of characters and
\* _ (95) for any one character; there is no escape character.
Like(p, s) ==
    IF p = <<>> THEN s = <<>>
    ELSE IF Head(p) = 37
         THEN Like(Tail(p), s) \/ (s # <<>> /\ Like(p, Tail(s)))
         ELSE /\ s # <<>>
              /\ (Head(p) = 95 \/ LikeFold(Head(p)) = LikeFold(Head(s)))
              /\ Like(Tail(p), Tail(s))

IsDigit(c) == c \in 48..57

RECURSIVE DecVal(_)
DecVal(t) == IF t = <<>> THEN 0
             ELSE DecVal(SubSeq(t, 1, Len(t) - 1)) * 10 + (t[Len(t)] - 48)

\* The number, in tenths, that a text bound to a numeric column is converted
\* to by the column's affinity; -1 when the text is no decimal literal
\* (it then stays TEXT and equals no number) or has a nonzero digit past
\* the first decimal (it then equals no stored value, all of which are
\* tenths).  Decimal literals only: digits with at most one point.
NumericTenths(t) ==
    LET dots == {k \in 1..Len(t) : t[k] = 46}
        dot  == IF dots = {} THEN Len(t) + 1 ELSE CHOOSE k \in dots : TRUE
        ip   == SubSeq(t, 1, dot - 1)
        fp   == SubSeq(t, dot + 1, Len(t))
    IN  IF /\ Cardinality(dots) <= 1
           /\ Len(ip) + Len(fp) >= 1
           /\ \A k \in 1..Len(ip) : IsDigit(ip[k])
           /\ \A k \in 1..Len(fp) : IsDigit(fp[k])
           /\ \A k \in 2..Len(fp) : fp[k] = 48
        THEN DecVal(ip) * 10 + (IF fp = <<>> THEN 0 ELSE fp[1] - 48)
        ELSE -1

\* The columns compared with = ; every other column is compared with LIKE.
NumericCriteria ==
    {"release_year", "rating", "runtime", "box_office", "critical_reception"}

\* A numeric column's value in tenths.
ColTenths(r, criteria) ==
    IF criteria = "rating" THEN r.rating ELSE r[criteria] * 10

RECURSIVE Where(_, _, _)
Where(rs, criteria, value) ==
    IF rs = <<>> THEN <<>>
    ELSE LET r == Head(rs)
             hit == IF criteria \in NumericCriteria
                    THEN ColTenths(r, criteria) = NumericTenths(value)
                    ELSE Like(<<37>> \o value \o <<37>>, r[criteria])
         IN (IF hit THEN <<r>> ELSE <<>>) \o Where(Tail(rs), criteria, value)

filter_cinematic_treasures(rs, criteria, value) == Where(rs, criteria, value)

---------------------------------------------------------------------------
\* Derived metrics.  A fraction is kept as [num, den].

impact_words == {<<105, 110, 102, 108, 117, 101, 110, 116, 105, 97, 108>>,
                 <<103, 114, 111, 117, 110, 100, 98, 114, 101, 97, 107, 105, 110, 103>>,
                 <<105, 99, 111, 110, 105, 99>>,
                 <<114, 101, 118, 111, 108, 117, 116, 105, 111, 110, 97, 114, 121>>,
                 <<108, 97, 110, 100, 109, 97, 114, 107>>}

calculate_cultural_impact_score(impact) ==
    LET words == split(lower(impact))
    IN  [num |-> Cardinality({k \in 1..Len(words) : words[k] \in impact_words}),
         den |-> Cardinality(impact_words)]

RECURSIVE Bin(_)
Bin(n) == IF n < 2 THEN <<n>> ELSE Bin(n \div 2) \o <<n % 2>>

\* format(n, '0<w>b'): the binary digits of n, zero-padded to w at least.
FormatBin(n, w) ==
    LET b == Bin(n) IN [k \in 1..(w - Len(b)) |-> 0] \o b

RECURSIVE TitleBits(_)
TitleBits(t) == IF t = <<>> THEN <<>>
                ELSE FormatBin(Head(t), 8) \o TitleBits(Tail(t))

generate_movie_dna(movie) ==
    TitleBits(movie.title) \o FormatBin(movie.rating, 8)
        \o FormatBin(movie.release_year, 16)

\* The similarity with the length off by one.
SimilarityOffByOne(dna1, dna2) ==
    [num |-> Cardinality({k \in 1..Min(Len(dna1), Len(dna2)) :
                            dna1[k] = dna2[k]}),
     den |-> Len(dna1) + 1]

movie_dna_similarity(dna1, dna2) ==
    [num |-> Cardinality({k \in 1..Min(Len(dna1), Len(dna2)) :
                            dna1[k] = dna2[k]}),
     den |-> Len(dna1)]

\* a > b for fractions with positive denominators.
Greater(a, b) == a.num * b.den > b.num * a.den

RECURSIVE Scan(_, _, _, _)
\* The loop of find_cinematic_soulmate over the rows left, with its two
\* locals.  soulmate is <<>> for None and <<row>> otherwise.
Scan(left, movie_id, target_dna, acc) ==
    IF left = <<>> THEN acc
    ELSE LET movie == Head(left)
             similarity == movie_dna_similarity(target_dna,
                                                generate_movie_dna(movie))
         IN  IF movie.id # movie_id /\ Greater(similarity, acc.max_similarity)
             THEN Scan(Tail(left), movie_id, target_dna,
                       [soulmate |-> <<movie>>, max_similarity |-> similarity])
             ELSE Scan(Tail(left), movie_id, target_dna, acc)

find_cinematic_soulmate(rs, movie_id) ==
    LET movies == get_all_cinematic_treasures(rs)
        target_movie == RowOf(movies, movie_id)
        target_dna == generate_movie_dna(target_movie)
    IN  Scan(movies, movie_id, target_dna,
             [soulmate |-> <<>>, max_similarity |-> [num |-> 0, den |-> 1]])

\* In hundredths.  now_year is datetime.now().year.
calculate_cinematic_quotient(movie, now_year) ==
    LET base_score == movie.rating * 100
        year_factor5 == (now_year - movie.release_year) * 5
        impact_score == calculate_cultural_impact_score(movie.cultural_impact)
        awards_score == IF movie.awards # <<>>
                        THEN CommaTokens(movie.awards) ELSE 0
    IN  base_score + year_factor5
          + (impact_score.num * 1000) \div impact_score.den
          + awards_score * 200

---------------------------------------------------------------------------
\* The pages' inputs: what the forms of the Add, Update and Remove pages are
\* filled with.

\* "A", "B"
CrudTitles == {<<65>>, <<66>>}

CrudYears == {1999, 2000}

\* datetime.now(), as the text stored in added_date.
Clock == {1, 2}

CrudFields == [title : CrudTitles, release_year : CrudYears, rating : {50},
               awards : {<<>>}, cultural_impact : {<<>>}]

\* The first row, in database order, with the title: frame[mask].iloc[0].
FirstWithTitle(rs, t) ==
    rs[CHOOSE k \in 1..Len(rs) :
         rs[k].title = t /\ \A j \in 1..(k - 1) : rs[j].title # t]

---------------------------------------------------------------------------
\* The record store's operations and the pages that change it.

Init ==
    /\ rows = <<>>
    /\ seq = 0
    /\ last = [op |-> "none"]

\* "Add to Vault".
AddPage(f, now) ==
    /\ seq < MaxId
    /\ rows' = add_cinematic_gem(rows, seq, f, now)
    /\ seq' = NextRowid(rows, seq)
    /\ last' = [op |-> "add", args |-> f, raised |-> FALSE]

\* update_cinematic_gem called with a Python int.
Update(i, f) ==
    /\ rows' = update_cinematic_gem(rows, PyInt(i), f)
    /\ last' = [op |-> "update", id |-> i, args |-> f,
                rowcount |-> RowCount(rows, PyInt(i)), raised |-> FALSE]
    /\ UNCHANGED seq

\* delete_cinematic_gem called with a Python int.
Delete(i) ==
    /\ rows' = delete_cinematic_gem(rows, PyInt(i))
    /\ last' = [op |-> "delete", id |-> i,
                rowcount |-> RowCount(rows, PyInt(i)), raised |-> FALSE]
    /\ UNCHANGED seq

\* "Update Cinematic Gem": the record is picked by title, and its id is read
\* off the frame's first matching row.
UpdatePage(sel, f) ==
    /\ sel \in Titles(rows)
    /\ LET movie_data == FirstWithTitle(get_all_cinematic_treasures(rows), sel)
           id == NpInt64(movie_data.id)
       IN  /\ rows' = update_cinematic_gem(rows, id, f)
           /\ last' = [op |-> "update_page", sel |-> sel, args |-> f,
                       rowcount |-> RowCount(rows, id), raised |-> FALSE]
    /\ UNCHANGED seq

\* "Remove from Vault".
RemovePage(sel) ==
    /\ sel \in Titles(rows)
    /\ LET movies == get_all_cinematic_treasures(rows)
           movie_id == NpInt64(FirstWithTitle(movies, sel).id)
       IN  /\ rows' = delete_cinematic_gem(rows, movie_id)
           /\ last' = [op |-> "remove_page", sel |-> sel,
                       rowcount |-> RowCount(rows, movie_id),
                       raised |-> FALSE]
    /\ UNCHANGED seq

Next ==
    \/ \E f \in CrudFields, now \in Clock : AddPage(f, now)
    \/ \E i \in 1..MaxId, f \in CrudFields : Update(i, f)
    \/ \E i \in 1..MaxId : Delete(i)
    \/ \E sel \in CrudTitles, f \in CrudFields : UpdatePage(sel, f)
    \/ \E sel \in CrudTitles : RemovePage(sel)

Spec == Init /\ [][Next]_vars

---------------------------------------------------------------------------
\* Properties of the record store, checked under Spec.

\* Filter arguments tried against the store: "", "A", "a", "_", "%", "2000",
\* "1999", "5".
ProbeCriteria == {"title", "release_year", "rating"}

ProbeValues == {<<>>, <<65>>, <<97>>, <<95>>, <<37>>, <<50, 48, 48, 48>>,
                <<49, 57, 57, 57>>, <<53>>}

\* C1: a create adds exactly one record, at the end of read_all(); its id
\* is the id of no record stored before, and its fields are the values
\* passed to create.
C1_InsertThenRead ==
    [][last'.op = "add" =>
         LET all == get_all_cinematic_treasures(rows')
             new == all[Len(all)]
         IN  /\ Len(all) = Len(rows) + 1
             /\ SubSeq(all, 1, Len(rows)) = rows
             /\ new.id \notin Ids(rows)
             /\ Cardinality(Ids(all)) = Len(all)
             /\ Fields(new) = last'.args]_vars

\* A create made after a delete left a gap: two records stored, a third id
\* spent, the last record holding the created fields.
C1_Witness ==
    /\ last.op = "add"
    /\ Len(rows) = 2
    /\ seq = 3
    /\ Fields(rows[Len(rows)]) = last.args

\* C2: after delete(id) of a stored record, the record is in neither
\* read_all() nor any filter result, the other records are all there and
\* unchanged, and only a create brings an id into the store.
C2_DeleteRemoves ==
    [][/\ (last'.op = "delete" /\ last'.id \in Ids(rows)) =>
            /\ last'.id \notin Ids(get_all_cinematic_treasures(rows'))
            /\ \A c \in ProbeCriteria, v \in ProbeValues :
                 last'.id \notin Ids(filter_cinematic_treasures(rows', c, v))
            /\ Len(rows') = Len(rows) - 1
            /\ \A j \in Ids(rows) \ {last'.id} :
                 j \in Ids(rows') /\ RowOf(rows', j) = RowOf(rows, j)
       /\ last'.op # "add" => Ids(rows') \subseteq Ids(rows)]_vars

\* A stored record was deleted and another is still stored.
C2_Witness ==
    /\ last.op = "delete"
    /\ last.rowcount = 1
    /\ rows # <<>>
    /\ last.id \notin Ids(rows)

\* C4: update(id, fields) of a stored record sets its mutable fields to the
\* given values and keeps its id and added_date; it changes no other
\* record; and no step changes the added_date of a record it keeps, or the
\* order of the ids.
C4_UpdateInPlace ==
    [][/\ (last'.op = "update" /\ last'.id \in Ids(rows)) =>
            /\ IdSeq(rows') = IdSeq(rows)
            /\ Fields(RowOf(rows', last'.id)) = last'.args
            /\ RowOf(rows', last'.id).added_date
                 = RowOf(rows, last'.id).added_date
            /\ \A j \in Ids(rows) \ {last'.id} :
                 RowOf(rows', j) = RowOf(rows, j)
       /\ \A j \in Ids(rows) \cap Ids(rows') :
            RowOf(rows', j).added_date = RowOf(rows, j).added_date
       /\ last'.op # "add" => IdSeq(rows') = IdSeq(Keep(rows, Ids(rows')))]_vars

\* A stored record was updated to the given fields beside another record
\* that holds other fields.
C4_Witness ==
    /\ last.op = "update"
    /\ last.rowcount = 1
    /\ Len(rows) >= 2
    /\ Fields(RowOf(rows, last.id)) = last.args
    /\ \E j \in Ids(rows) : Fields(RowOf(rows, j)) # last.args

\* C5: update and delete with an id no record has leave the store as it
\* was and raise nothing.
C5_AbsentIdNoOp ==
    [][(last'.op \in {"update", "delete"} /\ last'.id \notin Ids(rows)) =>
         /\ rows' = rows
         /\ seq' = seq
         /\ ~last'.raised]_vars

\* An update or delete matched no row of a store that holds records.
C5_Witness ==
    /\ last.op \in {"update", "delete"}
    /\ last.rowcount = 0
    /\ rows # <<>>

\* C10: one press on the Update or Remove page changes or removes exactly
\* the first record, in database order, that has the selected title, and
\* no other record.
C10_PagePicksFirstByTitle ==
    [][/\ last'.op = "update_page" =>
            LET first == FirstWithTitle(rows, last'.sel)
            IN  /\ IdSeq(rows') = IdSeq(rows)
                /\ Fields(RowOf(rows', first.id)) = last'.args
                /\ \A j \in Ids(rows) \ {first.id} :
                     RowOf(rows', j) = RowOf(rows, j)
       /\ last'.op = "remove_page" =>
            LET first == FirstWithTitle(rows, last'.sel)
            IN  /\ Ids(rows') = Ids(rows) \ {first.id}
                /\ \A j \in Ids(rows') : RowOf(rows', j) = RowOf(rows, j)]_vars

---------------------------------------------------------------------------
\* The Discover page: the filter form and the soulmate search, over a store
\* that earlier adds have filled.

\* The store holds at most this many records.
MaxStore == 3

\* "", "A", and the two-letter title of the characters 205 and 248.
QueryTitles == {<<>>, <<65>>, <<205, 248>>}

QueryRatings == {47, 50}

QueryYears == {2000}

QueryFields == [title : QueryTitles, release_year : QueryYears,
                rating : QueryRatings, awards : {<<>>},
                cultural_impact : {<<>>}]

RECURSIVE Filled(_)
\* The store after the records fs were added, in turn, to an empty vault.
Filled(fs) ==
    IF fs = <<>> THEN <<>>
    ELSE LET before == Filled(SubSeq(fs, 1, Len(fs) - 1))
         IN  add_cinematic_gem(before, Len(before), fs[Len(fs)], 1)

QueryStores ==
    {Filled(fs) : fs \in UNION {[1..n -> QueryFields] : n \in 1..MaxStore}}

\* The filter form's columns, and the values typed: "", "a", "_", "%",
\* "2000", "1999", "4.7", "x".
QueryCriteria == {"title", "release_year", "rating"}

QueryValues == {<<>>, <<97>>, <<95>>, <<37>>, <<50, 48, 48, 48>>,
                <<49, 57, 57, 57>>, <<52, 46, 55>>, <<120>>}

InitQuery ==
    /\ rows \in QueryStores
    /\ seq = Len(rows)
    /\ last = [op |-> "none"]

\* "Unearth Treasures".
Unearth(criteria, value) ==
    /\ last' = [op |-> "filter", criteria |-> criteria, value |-> value,
                result |-> filter_cinematic_treasures(rows, criteria, value)]
    /\ UNCHANGED <<rows, seq>>

\* "Find Soulmate": the target is the first record with the selected title;
\* the message then reads soulmate['title'], which raises when soulmate is
\* None.
FindSoulmate(sel) ==
    /\ sel \in Titles(rows)
    /\ LET movies == get_all_cinematic_treasures(rows)
           movie_id == FirstWithTitle(movies, sel).id
           found == find_cinematic_soulmate(rows, movie_id)
       IN  last' = [op |-> "soulmate", id |-> movie_id,
                    soulmate |-> found.soulmate,
                    similarity |-> found.max_similarity,
                    raised |-> (found.soulmate = <<>>)]
    /\ UNCHANGED <<rows, seq>>

\* The similarity of the fingerprints of two stored records (of one, when
\* j = k).
Similarity(j, k) ==
    /\ j \in 1..Len(rows) /\ k \in 1..Len(rows)
    /\ LET dna1 == generate_movie_dna(rows[j])
           dna2 == generate_movie_dna(rows[k])
       IN  last' = [op |-> "similarity", a |-> rows[j], b |-> rows[k],
                    dna1 |-> dna1, dna2 |-> dna2,
                    similarity |-> movie_dna_similarity(dna1, dna2)]
    /\ UNCHANGED <<rows, seq>>

NextQuery ==
    \/ \E criteria \in QueryCriteria, value \in QueryValues :
         Unearth(criteria, value)
    \/ \E sel \in QueryTitles : FindSoulmate(sel)
    \/ \E j \in 1..MaxStore, k \in 1..MaxStore : Similarity(j, k)

SpecQuery == InitQuery /\ [][NextQuery]_vars

---------------------------------------------------------------------------
\* Properties of the Discover page, checked under SpecQuery.

\* t contains v, letter case apart.
ContainsNoCase(t, v) ==
    \E o \in 0..(Len(t) - Len(v)) :
        \A k \in 1..Len(v) : LowerChar(t[o + k]) = LowerChar(v[k])

RECURSIVE Matching(_, _, _)
\* The records a filter is to return.
Matching(rs, criteria, value) ==
    IF rs = <<>> THEN <<>>
    ELSE LET r == Head(rs)
             hit == IF criteria \in NumericCriteria
                    THEN ColTenths(r, criteria) = NumericTenths(value)
                    ELSE ContainsNoCase(r[criteria], value)
         IN (IF hit THEN <<r>> ELSE <<>>) \o Matching(Tail(rs), criteria, value)

\* C3: a filter on a numeric field returns exactly the records whose field
\* equals the value, and a filter on a text field exactly the records whose
\* field contains the value, taken literally, letter case apart.
C3_FilterExact ==
    last.op = "filter" =>
        last.result = Matching(rows, last.criteria, last.value)

\* C3, the numeric fields alone.
C3_NumericFilterExact ==
    (last.op = "filter" /\ last.criteria \in NumericCriteria) =>
        last.result = Matching(rows, last.criteria, last.value)

\* The similarity of the target's fingerprint with a record's.
SimTo(target_id, r) ==
    movie_dna_similarity(generate_movie_dna(RowOf(rows, target_id)),
                         generate_movie_dna(r))

\* C7: with another record stored, the search returns a record: one of the
\* others with the greatest similarity to the target, and the first such in
\* database order.
C7_SoulmateIsFirstMaximum ==
    (last.op = "soulmate" /\ Len(rows) >= 2) =>
        /\ last.soulmate # <<>>
        /\ ~last.raised
        /\ LET s == last.soulmate[1]
               others == {k \in 1..Len(rows) : rows[k].id # last.id}
           IN  /\ \E k \in others : rows[k] = s
               /\ \A k \in others :
                    ~Greater(SimTo(last.id, rows[k]), SimTo(last.id, s))
               /\ \A k \in others :
                    k < (CHOOSE m \in others : rows[m] = s) =>
                        Greater(SimTo(last.id, s), SimTo(last.id, rows[k]))

\* C7 where some other record has a similarity above zero.
C7_SoulmateWhenSomeSimilar ==
    (/\ last.op = "soulmate"
     /\ \E k \in 1..Len(rows) :
          rows[k].id # last.id /\ SimTo(last.id, rows[k]).num > 0) =>
        /\ last.soulmate # <<>>
        /\ ~last.raised
        /\ LET s == last.soulmate[1]
               others == {k \in 1..Len(rows) : rows[k].id # last.id}
           IN  /\ \E k \in others : rows[k] = s
               /\ \A k \in others :
                    ~Greater(SimTo(last.id, rows[k]), SimTo(last.id, s))
               /\ \A k \in others :
                    k < (CHOOSE m \in others : rows[m] = s) =>
                        Greater(SimTo(last.id, s), SimTo(last.id, rows[k]))

\* C9: the similarity of a record's fingerprint with itself is 1, and two
\* records with the same title, rating and release_year have the same
\* fingerprint.
C9_SelfSimilarityIsOne ==
    (/\ last.op = "similarity"
     /\ last.a.title = last.b.title
     /\ last.a.rating = last.b.rating
     /\ last.a.release_year = last.b.release_year) =>
        /\ last.dna1 = last.dna2
        /\ last.similarity.den > 0
        /\ last.similarity.num = last.similarity.den

\* Two records of different ids and equal title, rating and release_year
\* were compared, and the title is not empty.
C9_Witness ==
    /\ last.op = "similarity"
    /\ last.a.id # last.b.id
    /\ last.a.title = last.b.title /\ last.a.title # <<>>
    /\ last.a.rating = last.b.rating
    /\ last.a.release_year = last.b.release_year
    /\ Len(last.dna1) = 8 * Len(last.a.title) + 24

---------------------------------------------------------------------------
\* The Analysis page: the quotient of every stored record, over a store of
\* one record whose free texts vary.

\* A cultural_impact text is made of at most this many pieces.
MaxPieces == 6

\* "iconic ", "Landmark ", "film, "
ImpactPieces == {<<105, 99, 111, 110, 105, 99, 32>>,
                 <<76, 97, 110, 100, 109, 97, 114, 107, 32>>,
                 <<102, 105, 108, 109, 44, 32>>}

\* "a groundbreaking and iconic film"
ExampleImpact ==
    <<97, 32, 103, 114, 111, 117, 110, 100, 98, 114, 101, 97, 107, 105,
    110, 103, 32, 97, 110, 100, 32, 105, 99, 111, 110, 105, 99, 32, 102,
    105, 108, 109>>

RECURSIVE Concat(_)
Concat(ts) == IF ts = <<>> THEN <<>> ELSE Head(ts) \o Concat(Tail(ts))

ImpactTexts ==
    {Concat(ps) : ps \in UNION {[1..n -> ImpactPieces] : n \in 0..MaxPieces}}
        \cup {ExampleImpact}

\* "", "Oscar", "Oscar,Globe"
AwardTexts == {<<>>, <<79, 115, 99, 97, 114>>,
               <<79, 115, 99, 97, 114, 44, 71, 108, 111, 98, 101>>}

AnalysisYears == {2024, 2026}

AnalysisFields == [title : {<<65>>}, release_year : {1999, 2000},
                   rating : {47, 80}, awards : AwardTexts,
                   cultural_impact : ImpactTexts]

InitAnalysis ==
    /\ rows \in {Filled(<<f>>) : f \in AnalysisFields}
    /\ seq = Len(rows)
    /\ last = [op |-> "none"]

\* "Cinematic Quotient Analysis": the quotient of each record of the frame,
\* and the cultural impact score that went into it.
Analysis(now_year) ==
    /\ LET movies == get_all_cinematic_treasures(rows)
       IN  last' = [op |-> "analysis", now_year |-> now_year,
                    impact_score |->
                        [k \in 1..Len(movies) |->
                            calculate_cultural_impact_score(
                                movies[k].cultural_impact)],
                    cinematic_quotient |->
                        [k \in 1..Len(movies) |->
                            calculate_cinematic_quotient(movies[k], now_year)]]
    /\ UNCHANGED <<rows, seq>>

NextAnalysis == \E now_year \in AnalysisYears : Analysis(now_year)

SpecAnalysis == InitAnalysis /\ [][NextAnalysis]_vars

---------------------------------------------------------------------------
\* Properties of the metrics, checked under SpecAnalysis.

\* The vocabulary words that are words of the text, letter case apart.
WordsPresent(t) ==
    LET words == split(lower(t))
    IN  {w \in impact_words : \E k \in 1..Len(words) : words[k] = w}

\* C6: the cultural impact score is the number of vocabulary words present
\* in the text, over five, and so lies in [0, 1].
C6_ImpactScoreIsFractionPresent ==
    last.op = "analysis" =>
        \A k \in 1..Len(rows) :
            LET score == last.impact_score[k]
            IN  /\ score.den = 5
                /\ 0 <= score.num /\ score.num <= score.den
                /\ score.num = Cardinality(WordsPresent(rows[k].cultural_impact))

\* C6 for the texts in which no vocabulary word comes twice.
C6_ScoreWhenNoWordRepeats ==
    (last.op = "analysis" /\
     \A k \in 1..Len(rows) :
        LET words == split(lower(rows[k].cultural_impact))
        IN  \A i, j \in 1..Len(words) :
               (words[i] = words[j] /\ words[i] \in impact_words) => i = j) =>
        \A k \in 1..Len(rows) :
            LET score == last.impact_score[k]
            IN  /\ score.den = 5
                /\ 0 <= score.num /\ score.num <= score.den
                /\ score.num = Cardinality(WordsPresent(rows[k].cultural_impact))

\* The quotient, in hundredths, as the formula gives it.
QuotientFormula(r, now_year) ==
    r.rating * 100 + (now_year - r.release_year) * 5
        + Cardinality(WordsPresent(r.cultural_impact)) * 200
        + (IF r.awards = <<>> THEN 0 ELSE CommaTokens(r.awards)) * 200

\* C8: the quotient is rating*10 + (current_year - release_year)/100*5 +
\* cultural_impact_score*10 + (awards tokens)*2, no awards counting as none;
\* it is 89.2 for rating 8.0, year 2000 in 2024, the impact text "a
\* groundbreaking and iconic film" and the awards "Oscar,Globe".
C8_QuotientFormula ==
    last.op = "analysis" =>
        \A k \in 1..Len(rows) :
            /\ last.cinematic_quotient[k]
                 = QuotientFormula(rows[k], last.now_year)
            /\ (/\ rows[k].rating = 80
                /\ rows[k].release_year = 2000
                /\ last.now_year = 2024
                /\ rows[k].cultural_impact = ExampleImpact
                /\ Len(rows[k].awards) = 11) =>
                    last.cinematic_quotient[k] = 8920

\* C8's worked example alone.
C8_WorkedExample ==
    last.op = "analysis" =>
        \A k \in 1..Len(rows) :
            (/\ rows[k].rating = 80
             /\ rows[k].release_year = 2000
             /\ last.now_year = 2024
             /\ rows[k].cultural_impact = ExampleImpact
             /\ Len(rows[k].awards) = 11) =>
                last.cinematic_quotient[k] = 8920

=============================================================================
